---- MODULE Spec2Model ----
(***************************************************************************)
(* HillPulse ingestion relay (src/server.js).  The file holds two          *)
(* programs: the baseline server (lines 1-156: deduplicator, resolver,     *)
(* summarizer, push and email notifiers) and the hardened server (lines    *)
(* 158-280: shared-secret gate, summarizer with retry, push notifier).     *)
(* `variant` says which of the two is running.                             *)
(*                                                                         *)
(* A request handler is an async function: it runs without interruption    *)
(* from one network await to the next, so every action below is one such   *)
(* run.  An await that settles without I/O (a missing credential, an empty *)
(* url) touches only the request's own locals and continues in the same    *)
(* action.  Each request carries `log`, the history of what its handler    *)
(* invoked, and the program's responses are kept in `resp`.                *)
(***************************************************************************)
EXTENDS Integers, Sequences, FiniteSets, TLC

\* ------------------------------------------------------------------ bounds
MaxTicks == 2
\* Connections closed, in the program that serves one request after another.
MaxServed == 2

\* The requests the server receives; they may overlap.
Requests == {1, 2}

\* ------------------------------------------------------- program constants
TTL_MS == 24 * 60 * 60 * 1000
MAX_RETRIES == 3

\* The clock only matters through differences; it starts at a positive
\* reading, as Date.now() is on every host.
StartMs == 1
\* Clock advances: one millisecond, the window, or one millisecond short of
\* it.  Their sums give the ages 0, 1, 2, TTL_MS - 1, TTL_MS, TTL_MS + 1, ...
Deltas == {1, TTL_MS - 1, TTL_MS}

\* ------------------------------------------------------------------ inputs
\* Payloads of POST /ingest (body.data / body.tweet): the fields the
\* handler reads.  "" is a missing or empty field.
Payloads ==
  { [tweet_id |-> "t1", id |-> "",   url |-> "u1", text |-> "T"],
    [tweet_id |-> "",   id |-> "t1", url |-> "",   text |-> "T"],
    [tweet_id |-> "",   id |-> "",   url |-> "u1", text |-> ""],
    [tweet_id |-> "",   id |-> "",   url |-> "",   text |-> "T"],
    [tweet_id |-> "t1", id |-> "",   url |-> "",   text |-> ""],
    [tweet_id |-> "",   id |-> "",   url |-> "",   text |-> "T2"] }

\* The locals of a handler that has not read its body yet.
NoBody == [tweet_id |-> "", id |-> "", url |-> "", text |-> ""]

Ids == {"t1", "u1", "unknown"}

\* Header values of a request: Absent is a header the request does not carry.
Absent == "<absent>"
Secret == "s3cret"
HeaderVals == {Absent, "", Secret, "Bearer s3cret", "nope"}

\* Outcomes of the outbound calls.
EmbedOutcomes == {"frag", "emptyfrag", "nofrag", "notok", "throw"}
SyndOutcomes == {"text", "notext", "notok", "throw"}
GeminiOutcomes == {"ok", "malformed", "503", "notok", "throw"}
PushOutcomes == {"ok", "notok", "throw"}
EmailOutcomes == {"sent", "throw"}

VARIABLES
  variant,        \* "baseline" | "hardened": which program of the file runs
  GEMINI_KEY,     \* process.env.GEMINI_API_KEY ("" when not configured)
  INGEST_SECRET,  \* process.env.INGEST_SECRET || ''
  PUSHOVER,       \* TRUE iff PUSHOVER_API_TOKEN and PUSHOVER_USER_KEY are set
  SMTP,           \* TRUE iff SMTP_HOST, SMTP_USER, SMTP_PASS, EMAIL_TO are set
  now,            \* Date.now()
  ticks,          \* clock advances so far (bounded by MaxTicks)
  SEEN,           \* the Map id -> timestamp
  lastMark,       \* history: id -> time of the last markSeen(id), 0 if none
  marks,          \* history: id -> markSeen(id) calls so far, counted up to 2
  dups,           \* history: id -> duplicates answered since its last mark, up to 2
  served,         \* connections closed so far (bounded by MaxServed)
  ret,            \* the last direct isSeen call: its id, time and result
  req             \* request -> the handler's locals, position and history

vars == <<variant, GEMINI_KEY, INGEST_SECRET, PUSHOVER, SMTP, now, ticks,
          SEEN, lastMark, marks, dups, served, ret, req>>
env == <<variant, GEMINI_KEY, INGEST_SECRET, PUSHOVER, SMTP>>

Range(s) == {s[i] : i \in 1..Len(s)}
Count(s, e) == Cardinality({i \in 1..Len(s) : s[i] = e})

\* ------------------------------------------------------------ Deduplicator
\* (mutant) the timestamp of an id already present is not refreshed.
markSeenKeepOld(seen, id, t) ==
  LET set == [k \in DOMAIN seen \cup {id} |->
                IF k \in DOMAIN seen THEN seen[k] ELSE t]
      keep == {k \in DOMAIN set : ~(t - set[k] > TTL_MS)}
  IN [k \in keep |-> set[k]]

\* (mutant) the pruning also deletes the entry that is exactly TTL_MS old.
markSeenPruneAtWindow(seen, id, t) ==
  LET set == [k \in DOMAIN seen \cup {id} |-> IF k = id THEN t ELSE seen[k]]
      keep == {k \in DOMAIN set : ~(t - set[k] >= TTL_MS)}
  IN [k \in keep |-> set[k]]

\* SEEN.set(id, Date.now()); then delete every entry older than TTL_MS.
\* The call is synchronous: both Date.now() readings are `now`.
markSeen(seen, id, t) ==
  LET set == [k \in DOMAIN seen \cup {id} |-> IF k = id THEN t ELSE seen[k]]
      keep == {k \in DOMAIN set : ~(t - set[k] > TTL_MS)}
  IN [k \in keep |-> set[k]]

\* (mutant) the window includes its end.
isSeenInclusive(seen, id, t) ==
  id \in DOMAIN seen /\ seen[id] # 0 /\ (t - seen[id]) <= TTL_MS

\* (mutant) the window is counted in seconds where the clock counts ms.
isSeenSeconds(seen, id, t) ==
  id \in DOMAIN seen /\ seen[id] # 0 /\ (t - seen[id]) < 24 * 60 * 60

\* The truthiness of `t && (Date.now() - t) < TTL_MS`: undefined (no entry)
\* and 0 are falsy.
isSeen(seen, id, t) ==
  id \in DOMAIN seen /\ seen[id] # 0 /\ (t - seen[id]) < TTL_MS

\* ---------------------------------------------------------------- requests
\* An optional JSON field is a sequence: <<>> when the body does not carry it.
NoResp ==
  [status |-> 0, ok |-> FALSE, duplicate |-> <<>>, error |-> <<>>,
   summary |-> <<>>, pushed |-> <<>>, emailed |-> <<>>]

Idle ==
  [pc |-> "idle", tweetId |-> "", url |-> "", text |-> "",
   attempt |-> 0, lastErr |-> "", waits |-> <<>>,
   summary |-> "", pushed |-> FALSE,
   log |-> <<>>, resp |-> NoResp, nresp |-> 0,
   failedAt |-> "none", pushOutcome |-> "none",
   xkey |-> Absent, auth |-> Absent, dupExpected |-> FALSE,
   body |-> NoBody, embedOutcome |-> "none", syndOutcome |-> "none",
   emailOutcome |-> "none", checkedAt |-> 0, priorMark |-> 0,
   geminiOutcome |-> "none", dupsBefore |-> 0]

Logged(q, events) == [q EXCEPT !.log = @ \o events]

\* res.status(status).json(body): the handler's last statement on every path.
Send(q, body) ==
  [Logged(q, <<"respond">>) EXCEPT !.pc = "done", !.resp = body, !.nresp = @ + 1]

\* (mutant) the catch only logs the error; no response is sent.
Catch500LogOnly(q, stage, message) ==
  [q EXCEPT !.pc = "done", !.failedAt = stage]

\* The catch of the route handler: res.status(500).json({ok:false, error}).
Catch500(q, stage, message) ==
  Send([q EXCEPT !.failedAt = stage],
       [NoResp EXCEPT !.status = 500, !.error = message])

Reject(q, status, message) ==
  Send(q, [NoResp EXCEPT !.status = status, !.error = message])

\* ---------------------------------------------------------------- Notifiers
\* Baseline: res.status(200).json({ok, duplicate:false, summary, pushed, emailed}).
Respond200Baseline(q, emailed) ==
  Send(q, [NoResp EXCEPT !.status = 200, !.ok = TRUE, !.duplicate = <<FALSE>>,
                         !.summary = <<q.summary>>, !.pushed = <<q.pushed>>,
                         !.emailed = <<emailed>>])

\* Hardened: res.json({ok, summary, pushed}), status 200 by default.
Respond200Hardened(q) ==
  Send(q, [NoResp EXCEPT !.status = 200, !.ok = TRUE,
                         !.summary = <<q.summary>>, !.pushed = <<q.pushed>>])

\* sendEmail up to its await: false without configuration, else sendMail.
sendEmail(q) ==
  LET q1 == Logged(q, <<"email">>)
  IN IF ~SMTP THEN Respond200Baseline(q1, FALSE)
     ELSE [Logged(q1, <<"smtp_send">>) EXCEPT !.pc = "email"]

\* What follows `const pushed = await sendPushover(...)` in each handler.
AfterPush(q) ==
  IF variant = "baseline" THEN sendEmail(q) ELSE Respond200Hardened(q)

\* sendPushover up to its await: false without credentials, else the POST.
sendPushover(q) ==
  LET q1 == Logged(q, <<"push">>)
  IN IF ~PUSHOVER THEN AfterPush([q1 EXCEPT !.pushed = FALSE])
     ELSE [Logged(q1, <<"push_fetch">>) EXCEPT !.pc = "push"]

\* The push service answers (r.ok is returned) or the fetch rejects: no
\* try/catch in sendPushover, so the rejection reaches the handler's catch.
PushSettled(q, o) ==
  LET q1 == [q EXCEPT !.pushOutcome = o]
  IN IF o = "throw" THEN Catch500(q1, "push", <<"fetch failed">>)
     ELSE AfterPush([q1 EXCEPT !.pushed = (o = "ok")])

\* (mutant) sendEmail catches the transport error and returns false.
EmailSettledCaught(q, o) ==
  LET q1 == [q EXCEPT !.emailOutcome = o]
  IN Respond200Baseline(q1, o = "sent")

\* transporter.sendMail resolves (return true) or rejects (uncaught).
EmailSettled(q, o) ==
  LET q1 == [q EXCEPT !.emailOutcome = o]
  IN IF o = "throw" THEN Catch500(q1, "email", <<"smtp failed">>)
     ELSE Respond200Baseline(q1, TRUE)

\* ---------------------------------------------------------------- Summarizer
\* (mutant) the key is not checked before the fetch.
callGeminiSummaryNoKeyCheck(q) ==
  [Logged(q, <<"summarizer", "gemini_fetch">>) EXCEPT !.pc = "gemini"]

\* callGeminiSummary up to its first await: throws without a key, before
\* any fetch and (hardened) outside the retry loop.
callGeminiSummary(q) ==
  LET q1 == Logged(q, <<"summarizer">>)
  IN IF GEMINI_KEY = "" THEN Catch500(q1, "summarizer", <<"Missing GEMINI_API_KEY">>)
     ELSE [Logged(q1, <<"gemini_fetch">>) EXCEPT !.pc = "gemini"]

\* The error message of a failed attempt.
GeminiError(o) ==
  CASE o = "throw" -> "fetch failed"
    [] o = "503" -> IF variant = "hardened" THEN "Gemini overload 503"
                                            ELSE "Gemini error 503"
    [] OTHER -> "Gemini error 500"

\* data?.candidates?.[0]?.content?.parts?.[0]?.text || '', trimmed.
SummaryOf(o) == IF o = "ok" THEN "S" ELSE ""

\* 1000 * Math.pow(2, attempt - 1)
Pow2(n) == IF n = 0 THEN 1 ELSE IF n = 1 THEN 2 ELSE IF n = 2 THEN 4 ELSE 8
Delay(attempt) == 1000 * Pow2(attempt - 1)

\* (mutant) a failed summary is swallowed and the notifiers run without one.
GeminiSettledBestEffort(q, o) ==
  sendPushover([q EXCEPT !.summary = SummaryOf(o)])

\* Baseline: one fetch; a non-OK status or a rejection throws.
GeminiSettledBaseline(q, o) ==
  IF o \in {"ok", "malformed"}
  THEN sendPushover([q EXCEPT !.summary = SummaryOf(o)])
  ELSE Catch500(q, "summarizer", <<GeminiError(o)>>)

\* (mutant) the retry test is off by one.
GeminiSettledOffByOne(q, o) ==
  IF o \in {"ok", "malformed"}
  THEN sendPushover([q EXCEPT !.summary = SummaryOf(o)])
  ELSE LET q1 == [q EXCEPT !.lastErr = GeminiError(o), !.attempt = @ + 1]
       IN IF q1.attempt <= MAX_RETRIES + 1
          THEN [q1 EXCEPT !.pc = "backoff", !.waits = Append(@, Delay(q1.attempt))]
          ELSE Catch500(q1, "summarizer",
                        <<"Gemini failed after 4 attempts: ", q1.lastErr>>)

\* (mutant) a response without a summary text counts as a failed attempt.
GeminiSettledNeedsText(q, o) ==
  IF o = "ok"
  THEN sendPushover([q EXCEPT !.summary = SummaryOf(o)])
  ELSE LET q1 == [q EXCEPT !.lastErr = GeminiError(o), !.attempt = @ + 1]
       IN IF q1.attempt <= MAX_RETRIES
          THEN [q1 EXCEPT !.pc = "backoff", !.waits = Append(@, Delay(q1.attempt))]
          ELSE Catch500(q1, "summarizer",
                        <<"Gemini failed after 4 attempts: ", q1.lastErr>>)

\* Hardened: the body of the retry loop after the fetch settled.  A failure
\* counts the attempt and either starts the backoff timer or leaves the loop
\* and throws.
GeminiSettledHardened(q, o) ==
  IF o \in {"ok", "malformed"}
  THEN sendPushover([q EXCEPT !.summary = SummaryOf(o)])
  ELSE LET q1 == [q EXCEPT !.lastErr = GeminiError(o), !.attempt = @ + 1]
       IN IF q1.attempt <= MAX_RETRIES
          THEN [q1 EXCEPT !.pc = "backoff", !.waits = Append(@, Delay(q1.attempt))]
          ELSE Catch500(q1, "summarizer",
                        <<"Gemini failed after 4 attempts: ", q1.lastErr>>)

GeminiSettled(q, o) ==
  LET q1 == [q EXCEPT !.geminiOutcome = o]
  IN IF variant = "baseline" THEN GeminiSettledBaseline(q1, o)
     ELSE GeminiSettledHardened(q1, o)

\* The timer fired: the loop condition holds (attempt <= MAX_RETRIES was
\* tested before the wait) and the next fetch is issued.
BackoffDone(q) == [Logged(q, <<"gemini_fetch">>) EXCEPT !.pc = "gemini"]

\* ------------------------------------------------------ Ingestion Endpoint
\* JavaScript's a || b on header values and strings: undefined and '' are falsy.
Falsy(x) == x = Absent \/ x = ""
Or(a, b) == IF Falsy(a) THEN b ELSE a

Bearer(secret) == IF secret = Secret THEN "Bearer s3cret" ELSE "Bearer "

\* (mutant) either header may carry the secret.
assertAuthorizedEitherHeader(xkey, auth) ==
  \/ INGEST_SECRET = ""
  \/ xkey = INGEST_SECRET \/ xkey = Bearer(INGEST_SECRET)
  \/ auth = INGEST_SECRET \/ auth = Bearer(INGEST_SECRET)

\* req.get('X-HillPulse-Key') || req.get('Authorization') || ''
assertAuthorized(xkey, auth) ==
  \/ INGEST_SECRET = ""
  \/ LET h == Or(Or(xkey, auth), "")
     IN h = INGEST_SECRET \/ h = Bearer(INGEST_SECRET)

\* (mutant) the url is not used as a key.
TweetIdNoUrl(p) == Or(Or(p.tweet_id, p.id), "unknown")

\* tweet.tweet_id || tweet.id || tweet.url || 'unknown'
TweetId(p) == Or(Or(Or(p.tweet_id, p.id), p.url), "unknown")

NoTextMessage ==
  IF variant = "baseline" THEN "Could not retrieve tweet text"
  ELSE "Missing tweet text"

DuplicateBody ==
  [NoResp EXCEPT !.status = 200, !.ok = TRUE, !.duplicate = <<TRUE>>]

\* History: whether this id was marked less than 24h ago, from lastMark.
MarkedWithinWindow(id) == lastMark[id] # 0 /\ now - lastMark[id] < TTL_MS

\* (mutant) the id is not marked at the check: the mark is left for after
\* the summarizer's await.
CheckDuplicateMarkLater(q) ==
  LET q1 == Logged([q EXCEPT !.dupExpected = MarkedWithinWindow(q.tweetId),
                             !.checkedAt = now,
                             !.priorMark = lastMark[q.tweetId],
                             !.dupsBefore = dups[q.tweetId]],
                   <<"isSeen">>)
  IN IF isSeen(SEEN, q.tweetId, now)
     THEN [q |-> Send(q1, DuplicateBody), seen |-> SEEN, marked |-> FALSE]
     ELSE [q |-> callGeminiSummary(q1), seen |-> SEEN, marked |-> FALSE]

\* (mutant) a duplicate refreshes the timestamp of its id.
CheckDuplicateRefresh(q) ==
  LET q1 == Logged([q EXCEPT !.dupExpected = MarkedWithinWindow(q.tweetId),
                             !.checkedAt = now,
                             !.priorMark = lastMark[q.tweetId],
                             !.dupsBefore = dups[q.tweetId]],
                   <<"isSeen">>)
  IN IF isSeen(SEEN, q.tweetId, now)
     THEN [q |-> Send(q1, DuplicateBody),
           seen |-> [SEEN EXCEPT ![q.tweetId] = now], marked |-> FALSE]
     ELSE [q |-> callGeminiSummary(Logged(q1, <<"markSeen">>)),
           seen |-> markSeen(SEEN, q.tweetId, now), marked |-> TRUE]

\* Baseline lines 142-145: isSeen, markSeen and the call of the summarizer,
\* with no await in between.  The result is the request and the new SEEN.
CheckDuplicate(q) ==
  LET q1 == Logged([q EXCEPT !.dupExpected = MarkedWithinWindow(q.tweetId),
                             !.checkedAt = now,
                             !.priorMark = lastMark[q.tweetId],
                             !.dupsBefore = dups[q.tweetId]],
                   <<"isSeen">>)
  IN IF isSeen(SEEN, q.tweetId, now)
     THEN [q |-> Send(q1, DuplicateBody), seen |-> SEEN, marked |-> FALSE]
     ELSE [q |-> callGeminiSummary(Logged(q1, <<"markSeen">>)),
           seen |-> markSeen(SEEN, q.tweetId, now), marked |-> TRUE]

\* (mutant) the empty text is not rejected.
ResolvedNoTextCheck(q) ==
  IF variant = "baseline" THEN CheckDuplicate(q)
  ELSE [q |-> callGeminiSummary(q), seen |-> SEEN, marked |-> FALSE]

\* The handler from `if (!text) return res.status(400)...` on.
Resolved(q) ==
  IF q.text = ""
  THEN [q |-> Reject(q, 400, <<NoTextMessage>>), seen |-> SEEN, marked |-> FALSE]
  ELSE IF variant = "baseline" THEN CheckDuplicate(q)
  ELSE [q |-> callGeminiSummary(q), seen |-> SEEN, marked |-> FALSE]

\* ------------------------------------------------------------ Text Resolver
\* fetchTweetText(url) for a non-empty url, up to the first fetch.
fetchTweetText(q) ==
  [Logged(q, <<"resolver", "oembed_fetch">>) EXCEPT !.pc = "oembed"]

\* The handler's locals after line 137 / 267, then `if (!text && url)`.
Received(q) ==
  IF q.text = "" /\ q.url # ""
  THEN [q |-> fetchTweetText(q), seen |-> SEEN, marked |-> FALSE]
  ELSE Resolved(q)

\* (mutant) no try/catch around the embed call: its rejection reaches the
\* handler's catch.
EmbedSettledUncaught(q, o) ==
  LET q1 == [q EXCEPT !.embedOutcome = o]
  IN CASE o = "frag" -> Resolved([q1 EXCEPT !.text = "T"])
       [] o = "emptyfrag" -> Resolved([q1 EXCEPT !.text = ""])
       [] o \in {"nofrag", "notok"} ->
            [q |-> [Logged(q1, <<"syndication_fetch">>)
                      EXCEPT !.pc = "syndication"],
             seen |-> SEEN, marked |-> FALSE]
       [] OTHER -> [q |-> Catch500(q1, "resolver", <<"fetch failed">>),
                    seen |-> SEEN, marked |-> FALSE]

\* The embed call settled: a paragraph fragment is returned as it is (it may
\* be empty); without one, or with a non-OK status, the fallback is fetched;
\* a rejection or a JSON parse error lands in the catch and '' is returned.
EmbedSettled(q, o) ==
  LET q1 == [q EXCEPT !.embedOutcome = o]
  IN CASE o = "frag" -> Resolved([q1 EXCEPT !.text = "T"])
       [] o = "emptyfrag" -> Resolved([q1 EXCEPT !.text = ""])
       [] o \in {"nofrag", "notok"} ->
            [q |-> [Logged(q1, <<"syndication_fetch">>)
                      EXCEPT !.pc = "syndication"],
             seen |-> SEEN, marked |-> FALSE]
       [] OTHER -> Resolved([q1 EXCEPT !.text = ""])

SyndSettled(q, o) ==
  Resolved([q EXCEPT !.syndOutcome = o,
                     !.text = IF o = "text" THEN "T" ELSE ""])

\* ------------------------------------------------------------------ actions
NoCall == [id |-> "", at |-> 0, markedAt |-> 0, value |-> FALSE]

Init ==
  /\ variant \in {"baseline", "hardened"}
  /\ GEMINI_KEY \in {"", "key"}
  /\ INGEST_SECRET \in (IF variant = "hardened" THEN {"", Secret} ELSE {""})
  /\ PUSHOVER \in BOOLEAN
  /\ SMTP \in (IF variant = "baseline" THEN BOOLEAN ELSE {FALSE})
  /\ now = StartMs
  /\ ticks = 0
  /\ SEEN = << >>
  /\ lastMark = [i \in Ids |-> 0]
  /\ marks = [i \in Ids |-> 0]
  /\ dups = [i \in Ids |-> 0]
  /\ served = 0
  /\ ret = NoCall
  /\ req = [r \in Requests |-> Idle]

\* The history of a markSeen(id) call at `now`.
Marked(id) ==
  /\ lastMark' = [lastMark EXCEPT ![id] = now]
  /\ marks' = [marks EXCEPT ![id] = IF @ < 2 THEN @ + 1 ELSE @]
  /\ dups' = [dups EXCEPT ![id] = 0]

\* The history of a step that marks nothing: a duplicate answered is counted.
NotMarked(q0, q) ==
  /\ UNCHANGED <<lastMark, marks>>
  /\ dups' = IF q.resp.duplicate = <<TRUE>> /\ q0.resp.duplicate # <<TRUE>>
             THEN [dups EXCEPT ![q.tweetId] = IF @ < 2 THEN @ + 1 ELSE @]
             ELSE dups

\* A handler step that may touch the deduplicator.
Commit(r, res) ==
  /\ req' = [req EXCEPT ![r] = res.q]
  /\ SEEN' = res.seen
  /\ IF res.marked THEN Marked(res.q.tweetId) ELSE NotMarked(req[r], res.q)
  /\ UNCHANGED <<env, now, ticks, served, ret>>

\* A handler step on the request's locals only.
Local(r, q) ==
  /\ req' = [req EXCEPT ![r] = q]
  /\ UNCHANGED <<env, now, ticks, SEEN, lastMark, marks, dups, served, ret>>

\* POST /ingest arrives at the baseline server (lines 130-139).
IngestBaseline(r) ==
  /\ variant = "baseline"
  /\ req[r].pc = "idle"
  /\ \E p \in Payloads :
       Commit(r, Received([req[r] EXCEPT !.body = p, !.tweetId = TweetId(p),
                                         !.url = p.url, !.text = p.text]))

\* The hardened program keeps no state between requests, so its handlers do
\* not interact: one request shows all that a handler can do.
IngestHardened(r) ==
  /\ variant = "hardened"
  /\ \A s \in Requests : req[s].pc = "idle"
  /\ \E p \in Payloads, xkey \in HeaderVals, auth \in HeaderVals :
       LET q == [req[r] EXCEPT !.xkey = xkey, !.auth = auth]
       IN IF ~assertAuthorized(xkey, auth)
          THEN Local(r, Reject(q, 401, <<"Unauthorized">>))
          ELSE Commit(r, Received([q EXCEPT !.url = p.url, !.text = p.text]))

EmbedReturns(r) ==
  /\ req[r].pc = "oembed"
  /\ \E o \in EmbedOutcomes : Commit(r, EmbedSettled(req[r], o))

SyndicationReturns(r) ==
  /\ req[r].pc = "syndication"
  /\ \E o \in SyndOutcomes : Commit(r, SyndSettled(req[r], o))

GeminiReturns(r) ==
  /\ req[r].pc = "gemini"
  /\ \E o \in GeminiOutcomes : Local(r, GeminiSettled(req[r], o))

BackoffExpires(r) ==
  /\ req[r].pc = "backoff"
  /\ Local(r, BackoffDone(req[r]))

PushReturns(r) ==
  /\ req[r].pc = "push"
  /\ \E o \in PushOutcomes : Local(r, PushSettled(req[r], o))

EmailReturns(r) ==
  /\ req[r].pc = "email"
  /\ \E o \in EmailOutcomes : Local(r, EmailSettled(req[r], o))

\* Time passes.  Only the baseline program reads the clock, only in the
\* duplicate check and only against the timestamps in SEEN: while SEEN is
\* empty an advance would only shift the origin, and once no request can
\* reach the check any more nothing reads the clock.
Tick ==
  /\ variant = "baseline"
  /\ ticks < MaxTicks
  /\ DOMAIN SEEN # {}
  /\ \E r \in Requests : req[r].pc \in {"idle", "oembed", "syndication"}
  /\ \E d \in Deltas : now' = now + d
  /\ ticks' = ticks + 1
  /\ UNCHANGED <<env, SEEN, lastMark, marks, dups, served, ret, req>>

Next ==
  \/ \E r \in Requests : IngestBaseline(r)
  \/ \E r \in Requests : IngestHardened(r)
  \/ \E r \in Requests : EmbedReturns(r)
  \/ \E r \in Requests : SyndicationReturns(r)
  \/ \E r \in Requests : GeminiReturns(r)
  \/ \E r \in Requests : BackoffExpires(r)
  \/ \E r \in Requests : PushReturns(r)
  \/ \E r \in Requests : EmailReturns(r)
  \/ Tick

Spec == Init /\ [][Next]_vars

\* Every outbound call and every timer of a request eventually settles:
\* fetch and sendMail resolve or reject, setTimeout fires.
EverySettles ==
  \A r \in Requests :
    /\ WF_vars(EmbedReturns(r))
    /\ WF_vars(SyndicationReturns(r))
    /\ WF_vars(GeminiReturns(r))
    /\ WF_vars(BackoffExpires(r))
    /\ WF_vars(PushReturns(r))
    /\ WF_vars(EmailReturns(r))

\* The steps of the handlers, without the passing of time between them: no
\* handler waits for the clock, and both results of the duplicate check are
\* reachable at one clock reading.
NextHandlers ==
  \/ \E r \in Requests : IngestBaseline(r)
  \/ \E r \in Requests : IngestHardened(r)
  \/ \E r \in Requests : EmbedReturns(r)
  \/ \E r \in Requests : SyndicationReturns(r)
  \/ \E r \in Requests : GeminiReturns(r)
  \/ \E r \in Requests : BackoffExpires(r)
  \/ \E r \in Requests : PushReturns(r)
  \/ \E r \in Requests : EmailReturns(r)

SpecFair == Init /\ [][NextHandlers]_vars /\ EverySettles

\* ------------------------------------- one request after another (baseline)
\* The baseline server over a longer life: the requests do not overlap, and
\* a connection that got its response is closed and gives way to the next.
\* SEEN and the clock live on across the requests.
InitStream == Init /\ variant = "baseline"

\* The next request is taken when no other is in flight; it is given the
\* first slot.
Alone(r) == \A s \in Requests : req[s].pc = "idle" /\ r <= s

\* The connection of an answered request closes; its locals are gone.
Close(r) ==
  /\ req[r].pc = "done"
  /\ served < MaxServed
  /\ served' = served + 1
  /\ req' = [req EXCEPT ![r] = Idle]
  /\ UNCHANGED <<env, now, ticks, SEEN, lastMark, marks, dups, ret>>

NextStream ==
  \/ \E r \in Requests : Alone(r) /\ IngestBaseline(r)
  \/ \E r \in Requests : EmbedReturns(r)
  \/ \E r \in Requests : SyndicationReturns(r)
  \/ \E r \in Requests : GeminiReturns(r)
  \/ \E r \in Requests : PushReturns(r)
  \/ \E r \in Requests : EmailReturns(r)
  \/ \E r \in Requests : Close(r)
  \/ Tick

SpecStream == InitStream /\ [][NextStream]_vars

\* ------------------------------------------------- the Deduplicator alone
\* markSeen and isSeen called directly, in any order, on any ids, while time
\* passes: the contract of lines 12-25 without the endpoint around it.
InitDedup ==
  /\ variant = "baseline"
  /\ GEMINI_KEY = "key"
  /\ INGEST_SECRET = ""
  /\ PUSHOVER = FALSE
  /\ SMTP = FALSE
  /\ now = StartMs
  /\ ticks = 0
  /\ SEEN = << >>
  /\ lastMark = [i \in Ids |-> 0]
  /\ marks = [i \in Ids |-> 0]
  /\ dups = [i \in Ids |-> 0]
  /\ served = 0
  /\ ret = NoCall
  /\ req = [r \in Requests |-> Idle]

MarkSeenCall(id) ==
  /\ SEEN' = markSeen(SEEN, id, now)
  /\ Marked(id)
  /\ UNCHANGED <<env, now, ticks, served, ret, req>>

IsSeenCall(id) ==
  /\ ret' = [id |-> id, at |-> now, markedAt |-> lastMark[id],
             value |-> isSeen(SEEN, id, now)]
  /\ UNCHANGED <<env, now, ticks, SEEN, lastMark, marks, dups, served, req>>

Elapse ==
  /\ ticks < MaxTicks
  /\ \E d \in Deltas : now' = now + d
  /\ ticks' = ticks + 1
  /\ UNCHANGED <<env, SEEN, lastMark, marks, dups, served, ret, req>>

NextDedup ==
  \/ \E id \in Ids : MarkSeenCall(id)
  \/ \E id \in Ids : IsSeenCall(id)
  \/ Elapse

SpecDedup == InitDedup /\ [][NextDedup]_vars

\* ------------------------------------------------ the hardened server alone
\* The hardened program with the scheduling its runtime gives it: a pending
\* fetch settles (it resolves or rejects) and a set timer fires.
InitHardened == Init /\ variant = "hardened"

NextHardened ==
  \/ \E r \in Requests : IngestHardened(r)
  \/ \E r \in Requests : EmbedReturns(r)
  \/ \E r \in Requests : SyndicationReturns(r)
  \/ \E r \in Requests : GeminiReturns(r)
  \/ \E r \in Requests : BackoffExpires(r)
  \/ \E r \in Requests : PushReturns(r)

Settles ==
  \A r \in Requests :
    /\ WF_vars(EmbedReturns(r))
    /\ WF_vars(SyndicationReturns(r))
    /\ WF_vars(GeminiReturns(r))
    /\ WF_vars(BackoffExpires(r))
    /\ WF_vars(PushReturns(r))

SpecHardened == InitHardened /\ [][NextHardened]_vars /\ Settles

\* -------------------------------------------------------------- properties
\* What a request's handler did, read from its history.
Invoked(r, e) == e \in Range(req[r].log)
Fetches(r) == Count(req[r].log, "gemini_fetch")
Done(r) == req[r].pc = "done"
\* C1: an id last marked at T is seen at T' iff T' - T < 24h, and an id never
\* marked is not seen, after any sequence of markSeen / isSeen calls, pruned
\* or not.  Stated of the query in every reachable state and of the recorded
\* result of every direct isSeen call.
C1_DedupWindow ==
  /\ \A id \in Ids :
       isSeen(SEEN, id, now) <=> (lastMark[id] # 0 /\ now - lastMark[id] < TTL_MS)
  /\ ret.id # "" =>
       (ret.value <=> (ret.markedAt # 0 /\ ret.at - ret.markedAt < TTL_MS))

\* C1 witness: a query exactly 24h after the mark, on an entry that is still
\* in the map (nothing pruned it), answered falsy.
C1_Witness ==
  \E id \in Ids :
    /\ id \in DOMAIN SEEN
    /\ now - lastMark[id] = TTL_MS
    /\ ret = [id |-> id, at |-> now, markedAt |-> lastMark[id], value |-> FALSE]

\* C4: an id marked twice or more is seen throughout the 24h that follow its
\* most recent mark, whatever was marked and pruned in between.
C4_RemarkKeepsWindow ==
  \A id \in Ids :
    (marks[id] = 2 /\ now - lastMark[id] < TTL_MS) => isSeen(SEEN, id, now)

\* C4 witness: the second mark of an id came when its first was about to
\* expire, another id was marked after it, and the id is seen one
\* millisecond before the end of the new window.
C4_Witness ==
  \E id \in Ids, other \in Ids :
    /\ other # id
    /\ marks[id] = 2
    /\ lastMark[id] > StartMs
    /\ lastMark[other] >= lastMark[id]
    /\ now - lastMark[id] = TTL_MS - 1
    /\ isSeen(SEEN, id, now)

\* C2: a request that reaches the duplicate check less than 24h after a
\* request with the same identifier passed it is answered
\* 200 {ok:true, duplicate:true}, and neither the summarizer nor a notifier
\* is invoked for it.
C2_DuplicateSuppressed ==
  \A r \in Requests :
    req[r].dupExpected =>
      /\ Done(r)
      /\ req[r].resp = DuplicateBody
      /\ ~Invoked(r, "summarizer") /\ ~Invoked(r, "push") /\ ~Invoked(r, "email")

\* C2 witness: the second request arrives one millisecond before the window
\* of the first, which passed the check, ends.
C2_Witness ==
  \E r \in Requests, s \in Requests :
    /\ r # s
    /\ req[s].tweetId = req[r].tweetId
    /\ Invoked(s, "markSeen")
    /\ req[r].dupExpected
    /\ now - lastMark[req[r].tweetId] = TTL_MS - 1
    /\ req[r].resp = DuplicateBody

\* C3 (as claimed): an id is in the seen set only on behalf of a request
\* that is still being processed or of one that ended in the 200
\* non-duplicate response; a request that ended in a 500 does not leave its
\* id marked.
C3_SeenOnlyAfterSuccess ==
  \A id \in DOMAIN SEEN :
    \E r \in Requests :
      /\ req[r].tweetId = id
      /\ Invoked(r, "markSeen")
      /\ \/ ~Done(r)
         \/ req[r].resp.status = 200 /\ req[r].resp.duplicate = <<FALSE>>

\* C6: without GEMINI_API_KEY a request that reaches the summarizer is
\* answered 500 {ok:false, error:"Missing GEMINI_API_KEY"}, with no call of
\* the generative-text API, no retry, no backoff wait and no notifier.
C6_MissingKey ==
  GEMINI_KEY = "" =>
    \A r \in Requests :
      Invoked(r, "summarizer") =>
        /\ Done(r)
        /\ req[r].resp = [NoResp EXCEPT !.status = 500,
                                        !.error = <<"Missing GEMINI_API_KEY">>]
        /\ req[r].nresp = 1
        /\ Fetches(r) = 0
        /\ req[r].attempt = 0 /\ req[r].waits = << >>
        /\ ~Invoked(r, "push") /\ ~Invoked(r, "email")

\* C6 witness: the hardened server, no key, a request whose text the
\* resolver's fallback delivered.
C6_Witness ==
  /\ GEMINI_KEY = ""
  /\ variant = "hardened"
  /\ \E r \in Requests :
       /\ Invoked(r, "syndication_fetch")
       /\ Invoked(r, "summarizer")
       /\ req[r].resp.status = 500

\* A request that was answered and was not turned away at the gate.
PastResolving(r) == Done(r) /\ req[r].resp.status # 401

\* C8, in every state: an answered request whose text is empty after the
\* Resolving step got 400 with an ok:false error body, called neither the
\* deduplicator, the summarizer nor a notifier and, with neither text nor
\* url, made no network call.

C8_Rejected ==
  \A r \in Requests :
    (PastResolving(r) /\ req[r].text = "") =>
      /\ req[r].resp.status = 400
      /\ req[r].resp.ok = FALSE /\ req[r].resp.error # << >>
      /\ req[r].nresp = 1
      /\ ~Invoked(r, "isSeen") /\ ~Invoked(r, "markSeen")
      /\ ~Invoked(r, "summarizer") /\ ~Invoked(r, "push") /\ ~Invoked(r, "email")
      /\ req[r].url = "" =>
           /\ ~Invoked(r, "resolver")
           /\ ~Invoked(r, "oembed_fetch") /\ ~Invoked(r, "syndication_fetch")

\* C8, in every step: the step that answers 400 leaves the seen set as it was.
C8_Frame ==
  \A r \in Requests :
    (req'[r].resp.status = 400 /\ req[r].resp.status # 400) =>
      (SEEN' = SEEN /\ lastMark' = lastMark)

\* C8: a request whose text is empty after the Resolving step is answered
\* 400 with an ok:false error body; the seen set is left unchanged (its id
\* is not marked), the summarizer and the notifiers are never invoked, and
\* with neither text nor url the resolver makes no network call.
C8_UnresolvableText == [](C8_Rejected) /\ [][C8_Frame]_vars

\* C8 witness: the baseline server answered 400 after both sources of the
\* resolver failed, while the seen set holds another request's id.
C8_Witness ==
  \E r \in Requests :
    /\ variant = "baseline"
    /\ req[r].resp.status = 400
    /\ Invoked(r, "syndication_fetch")
    /\ DOMAIN SEEN # {}
    /\ req[r].tweetId \notin DOMAIN SEEN

\* C9 (as claimed): whatever the push service does (a non-success status or
\* a network error), sendPushover yields false and does not raise: the
\* request is not answered 500 because of it, and unless the email transport
\* fails afterwards it ends with 200 and pushed:false.
C9_PushFailureSwallowed ==
  \A r \in Requests :
    req[r].pushOutcome \in {"notok", "throw"} =>
      /\ req[r].failedAt # "push"
      /\ (Done(r) /\ req[r].failedAt # "email") =>
           (req[r].resp.status = 200 /\ req[r].resp.pushed = <<FALSE>>)

\* C10 (as claimed): in the baseline server, every request whose
\* summarization succeeded has the email notifier attempted, whatever the
\* push notifier did.
C10_EmailAlwaysAttempted ==
  variant = "baseline" =>
    \A r \in Requests :
      (Done(r) /\ Invoked(r, "push")) => Invoked(r, "email")

\* The waits the retry policy allows, in order, and a request inside the
\* summarizer's loop.
Backoffs == <<1000, 2000, 4000>>
InSummarizer(r) == req[r].pc \in {"gemini", "backoff"}

\* C5, in every state: at most 4 fetches, one more than the failures while a
\* fetch is pending; the waits are a prefix of 1s, 2s, 4s, one per failure
\* but the 4th; the summarizer is left with a result after a fetch that did
\* not fail, or with the throw after exactly 4 failures and 3 waits.

C5_Bounded ==
  \A r \in Requests :
    Invoked(r, "gemini_fetch") =>
      /\ Fetches(r) <= MAX_RETRIES + 1
      /\ Len(req[r].waits) <= Len(Backoffs)
      /\ req[r].waits = SubSeq(Backoffs, 1, Len(req[r].waits))
      /\ req[r].pc = "gemini" =>
           (Fetches(r) = req[r].attempt + 1 /\ Len(req[r].waits) = req[r].attempt)
      /\ req[r].pc = "backoff" =>
           (Fetches(r) = req[r].attempt /\ Len(req[r].waits) = req[r].attempt)
      /\ Invoked(r, "push") =>
           (Fetches(r) = req[r].attempt + 1 /\ Len(req[r].waits) = req[r].attempt)
      /\ (Done(r) /\ ~Invoked(r, "push")) =>
           /\ req[r].failedAt = "summarizer"
           /\ Fetches(r) = MAX_RETRIES + 1 /\ req[r].attempt = MAX_RETRIES + 1
           /\ req[r].waits = Backoffs
           /\ req[r].resp.status = 500
           /\ req[r].resp.error = <<"Gemini failed after 4 attempts: ", req[r].lastErr>>

\* C5, termination: a request in the loop leaves it.
C5_Terminates == \A r \in Requests : InSummarizer(r) ~> ~InSummarizer(r)

\* C5: the hardened summarizer makes at most 4 fetch attempts, a new one only
\* after the previous one failed; it waits exactly 1s, 2s and 4s before
\* attempts 2, 3 and 4 and not after the 4th failure; it returns after the
\* first OK attempt or throws after the 4th failed one, and it always
\* terminates.
C5_BoundedRetry == [](C5_Bounded) /\ C5_Terminates

\* C5 witness: four failed attempts, the last answered 503, and the throw.
C5_Witness ==
  \E r \in Requests :
    /\ Done(r)
    /\ Fetches(r) = 4
    /\ req[r].waits = <<1000, 2000, 4000>>
    /\ req[r].resp.error = <<"Gemini failed after 4 attempts: ", "Gemini overload 503">>

\* The 401 response, sent before anything else was invoked.
Unauthorized401(r) ==
  /\ Done(r)
  /\ req[r].resp = [NoResp EXCEPT !.status = 401, !.error = <<"Unauthorized">>]
  /\ req[r].log = <<"respond">>

\* A header value that carries the secret, raw or Bearer-prefixed.
Presents(h) == h = INGEST_SECRET \/ h = Bearer(INGEST_SECRET)
Arrived(r) == req[r].pc # "idle"

\* C7 (as claimed): with a secret configured, a request whose
\* X-HillPulse-Key header, or its Authorization header if that one is
\* absent, is neither the secret nor 'Bearer ' and the secret is answered
\* 401 {ok:false, error:"Unauthorized"} and reaches neither the resolver,
\* the summarizer nor the push notifier; without a secret nothing is
\* answered 401.
C7_GateLiteral ==
  \A r \in Requests :
    /\ ( /\ Arrived(r)
         /\ INGEST_SECRET # ""
         /\ ~Presents(IF req[r].xkey = Absent THEN req[r].auth ELSE req[r].xkey) )
       => Unauthorized401(r)
    /\ INGEST_SECRET = "" => req[r].resp.status # 401

\* C7 (amended): the same, where the Authorization header is taken when the
\* X-HillPulse-Key header is absent or empty.
C7_Gate ==
  \A r \in Requests :
    /\ ( /\ Arrived(r)
         /\ INGEST_SECRET # ""
         /\ ~Presents(IF req[r].xkey \in {Absent, ""} THEN req[r].auth
                      ELSE req[r].xkey) )
       => Unauthorized401(r)
    /\ INGEST_SECRET = "" => req[r].resp.status # 401

\* C7 witness: a secret is configured and a request that carries the secret
\* in Authorization behind a wrong X-HillPulse-Key was turned away.
C7_Witness ==
  /\ INGEST_SECRET = Secret
  /\ \E r \in Requests :
       /\ req[r].xkey = "nope" /\ req[r].auth = Secret
       /\ Unauthorized401(r)

\* C11: in the baseline program, when the push was delivered (sendPushover
\* returned true) and the email transport raises, the request is answered
\* 500 {ok:false, error:<message>} and never 200; the push stays delivered
\* and the id stays marked (its entry leaves SEEN only by pruning, once it is
\* older than 24 hours).
C11_EmailFailureMasksPush ==
  \A r \in Requests :
    (variant = "baseline" /\ req[r].pushOutcome = "ok"
       /\ req[r].emailOutcome = "throw") =>
      /\ Done(r)
      /\ req[r].nresp = 1
      /\ req[r].resp.status = 500
      /\ req[r].resp.ok = FALSE
      /\ req[r].resp.error # <<>>
      /\ req[r].resp.pushed = <<>>
      /\ req[r].pushed = TRUE
      /\ Invoked(r, "markSeen")
      /\ \/ req[r].tweetId \in DOMAIN SEEN
         \/ now - lastMark[req[r].tweetId] > TTL_MS

\* A request whose push was delivered is answered 500 while its id is still
\* seen.
C11_Witness ==
  \E r \in Requests :
    /\ req[r].pushOutcome = "ok" /\ req[r].emailOutcome = "throw"
    /\ req[r].resp.status = 500
    /\ isSeen(SEEN, req[r].tweetId, now)

\* The statuses the two handlers send.
Statuses == {200, 400, 401, 500}

C12_Shape ==
  \A r \in Requests :
    /\ req[r].nresp <= 1
    /\ Done(r) <=> req[r].nresp = 1
    /\ req[r].nresp = 0 => req[r].resp = NoResp
    /\ req[r].nresp = 1 =>
         /\ req[r].resp.status \in Statuses
         /\ req[r].log[Len(req[r].log)] = "respond"
         /\ Count(req[r].log, "respond") = 1
         /\ req[r].resp.status \in {400, 401, 500} =>
              req[r].resp.ok = FALSE /\ req[r].resp.error # <<>>
         /\ req[r].resp.status = 200 =>
              req[r].resp.ok = TRUE /\ req[r].resp.error = <<>>

\* A step of an answered request: there is none.
C12_Final ==
  \A r \in Requests : req[r].nresp = 1 => req'[r] = req[r]

\* C12: in both variants and for every combination of outcomes of the
\* outbound calls, each of which eventually returns or raises, a request that
\* arrived is eventually answered, and answered exactly once: with status
\* 200, 400, 401 or 500, ok:false and an error string on 400, 401 and 500,
\* ok:true on 200, and no step of the handler after the response.
C12_OneResponse ==
  /\ [](C12_Shape)
  /\ [][C12_Final]_vars
  /\ \A r \in Requests : Arrived(r) ~> Done(r)

\* Two answered requests: one got its 500 after the summarizer, the push and
\* the email calls had all settled, the other its 400.
C12_Witness ==
  \E r \in Requests, s \in Requests :
    /\ req[r].resp.status = 500 /\ req[r].failedAt = "email"
    /\ req[s].resp.status = 400 /\ req[s].nresp = 1

\* The embed outcomes in which the paragraph pattern matched.
FragmentFound == {"frag", "emptyfrag"}
Returned(r) == req[r].embedOutcome # "none" /\ req[r].pc # "syndication"

\* C13: in both variants, for a non-empty url, the syndication fallback is
\* called whenever the embed call did not yield an extracted fragment
\* (non-success status, network error, unparsable body, markup without a
\* fragment) and never when a fragment was found; the resolver returns ""
\* only if both sources failed.
C13_ResolverFallback ==
  \A r \in Requests :
    req[r].embedOutcome # "none" =>
      /\ req[r].embedOutcome \notin FragmentFound =>
           Invoked(r, "syndication_fetch")
      /\ req[r].embedOutcome \in FragmentFound =>
           ~Invoked(r, "syndication_fetch")
      /\ (Returned(r) /\ req[r].text = "") =>
           /\ req[r].embedOutcome \notin FragmentFound
           /\ req[r].syndOutcome \in {"notext", "notok", "throw"}

\* C14: in both variants, whatever the embed and the syndication call do
\* (any status, any body, a rejection), fetchTweetText returns a string and
\* never raises: no request is answered 500 out of the resolver (a 500 comes
\* from the summarizer or a notifier, with a text in hand), and a request
\* whose resolver returned the empty text is answered 400.
C14_ResolverNeverFails ==
  \A r \in Requests :
    Invoked(r, "resolver") =>
      /\ req[r].failedAt # "resolver"
      /\ Returned(r) => req[r].text \in {"", "T"}
      /\ req[r].resp.status = 500 =>
           /\ req[r].failedAt \in {"summarizer", "push", "email"}
           /\ Invoked(r, "summarizer")
           /\ req[r].text # ""
      /\ (Returned(r) /\ req[r].text = "") =>
           /\ Done(r)
           /\ req[r].resp.status = 400
           /\ req[r].resp.ok = FALSE
           /\ req[r].resp.error = <<NoTextMessage>>

\* One request whose embed call raised and one whose syndication call
\* raised, both answered 400.
C14_Witness ==
  \E r \in Requests, s \in Requests :
    /\ req[r].embedOutcome = "throw" /\ req[r].resp.status = 400
    /\ req[s].syndOutcome = "throw" /\ req[s].resp.status = 400

\* The steps of the baseline handler in the order of its code.
Steps ==
  <<"resolver", "oembed_fetch", "syndication_fetch", "isSeen", "markSeen",
    "summarizer", "gemini_fetch", "push", "push_fetch", "email", "smtp_send",
    "respond">>
Rank ==
  [e \in Range(Steps) |-> CHOOSE i \in 1..Len(Steps) : Steps[i] = e]
InOrder(log) ==
  \A i \in 1..Len(log) - 1 : Rank[log[i]] < Rank[log[i + 1]]

\* C15: a baseline request takes its steps only in the order Resolving,
\* Checking Duplicate, Summarizing, Notifying (push, then email), Responding.
\* The summarizer is invoked only with a non-empty text, after the duplicate
\* check passed and marked the id; the push notifier only after the
\* summarizer returned a summary; the email notifier only after the push
\* notifier returned; the non-duplicate 200 is sent only after both
\* notifiers returned; after a failed step, or a response, no later step is
\* taken.
C15_StageOrder ==
  variant = "baseline" =>
    \A r \in Requests :
      /\ InOrder(req[r].log)
      /\ Done(r) => req[r].log[Len(req[r].log)] = "respond"
      /\ Invoked(r, "summarizer") =>
           /\ req[r].text # ""
           /\ Invoked(r, "isSeen") /\ Invoked(r, "markSeen")
           /\ req[r].resp.duplicate # <<TRUE>>
           /\ lastMark[req[r].tweetId] >= req[r].checkedAt
      /\ Invoked(r, "push") =>
           Invoked(r, "gemini_fetch") /\ req[r].geminiOutcome \in {"ok", "malformed"}
      /\ Invoked(r, "email") =>
           /\ Invoked(r, "push")
           /\ req[r].pc # "push"
           /\ Invoked(r, "push_fetch") => req[r].pushOutcome \in {"ok", "notok"}
      /\ (req[r].resp.status = 200 /\ req[r].resp.duplicate = <<FALSE>>) =>
           /\ Invoked(r, "push") /\ Invoked(r, "email")
           /\ Invoked(r, "smtp_send") => req[r].emailOutcome = "sent"
      /\ req[r].resp.status = 400 =>
           ~(\E e \in {"isSeen", "summarizer", "push", "email"} : Invoked(r, e))
      /\ req[r].resp.duplicate = <<TRUE>> =>
           ~(\E e \in {"markSeen", "summarizer", "push", "email"} : Invoked(r, e))
      /\ req[r].failedAt = "summarizer" =>
           ~Invoked(r, "push") /\ ~Invoked(r, "email")
      /\ req[r].failedAt = "push" => ~Invoked(r, "email")

\* One request went through every step to its 200 while the other stopped
\* at a push that raised.
C15_Witness ==
  \E r \in Requests, s \in Requests :
    /\ variant = "baseline"
    /\ req[r].log = Steps /\ req[r].resp.status = 200
    /\ req[s].failedAt = "push" /\ Done(s)

Checked(r) == Invoked(r, "isSeen")
Passed(r) == Invoked(r, "summarizer")
Apart(r, s) ==
  IF req[r].checkedAt >= req[s].checkedAt
  THEN req[r].checkedAt - req[s].checkedAt
  ELSE req[s].checkedAt - req[r].checkedAt

\* C16: in the baseline program, of the requests with one id that are in
\* flight together and interleave at every await, at most one of those that
\* reach the duplicate check within a 24-hour window passes it and invokes
\* the summarizer; every other one is answered {ok:true, duplicate:true} and
\* calls nothing; no two of them both find isSeen false for the id.
C16_AtomicCheckAndMark ==
  variant = "baseline" =>
    /\ \A r \in Requests :
         Checked(r) =>
           /\ Passed(r) <=> Invoked(r, "markSeen")
           /\ ~Passed(r) <=> req[r].resp = DuplicateBody
           /\ ~Passed(r) => Done(r) /\ ~Invoked(r, "push") /\ ~Invoked(r, "email")
    /\ \A r \in Requests, s \in Requests :
         (r # s /\ Checked(r) /\ Checked(s)
            /\ req[r].tweetId = req[s].tweetId /\ Apart(r, s) < TTL_MS) =>
           ~(Passed(r) /\ Passed(s))

\* Two requests with one id resolve their text side by side; one passed the
\* check and still waits for the summarizer, the other, checked one
\* millisecond short of 24 hours later, was answered as a duplicate.
C16_Witness ==
  \E r \in Requests, s \in Requests :
    /\ r # s /\ req[r].tweetId = req[s].tweetId
    /\ Invoked(r, "resolver") /\ Invoked(s, "resolver")
    /\ req[r].pc = "gemini"
    /\ req[s].resp = DuplicateBody
    /\ req[s].checkedAt - req[r].checkedAt = TTL_MS - 1

\* A step of the server, by what it does to SEEN: a step with a markSeen(id)
\* call (the history records it) or any other step.
C17_Step ==
  LET ids == {i \in Ids : lastMark'[i] # lastMark[i]}
  IN IF ids = {}
     THEN SEEN' = SEEN
     ELSE \E id \in ids :
            /\ ids = {id}
            /\ now' = now
            /\ DOMAIN SEEN' \subseteq DOMAIN SEEN \cup {id}
            /\ id \in DOMAIN SEEN' /\ SEEN'[id] = now
            /\ \A k \in DOMAIN SEEN' : now - SEEN'[k] <= TTL_MS
            /\ \A k \in DOMAIN SEEN \ {id} :
                 IF now - SEEN[k] > TTL_MS
                 THEN k \notin DOMAIN SEEN'
                 ELSE k \in DOMAIN SEEN' /\ SEEN'[k] = SEEN[k]

\* C17: right after every markSeen(id) at time now, SEEN holds no entry older
\* than 24 hours; the call removes only such entries, sets the timestamp of
\* id to now and leaves every other entry of age <= 24 hours as it was; every
\* other step (isSeen, a request that does not reach markSeen, the clock)
\* adds, removes and changes no entry.
C17_PruningOnWrite == [][C17_Step]_vars

\* Right after a markSeen: an entry older than the window is gone, one that
\* is exactly 24 hours old is kept.
C17_Witness ==
  \E id \in Ids, k \in Ids, j \in Ids :
    /\ id \in DOMAIN SEEN /\ SEEN[id] = now
    /\ lastMark[k] # 0 /\ k \notin DOMAIN SEEN
    /\ j \in DOMAIN SEEN /\ now - SEEN[j] = TTL_MS

\* A step that answers a request as a duplicate leaves SEEN as it was.
C18_Frame ==
  \A r \in Requests :
    (req'[r].resp.duplicate = <<TRUE>> /\ req[r].resp.duplicate # <<TRUE>>) =>
      SEEN' = SEEN /\ lastMark' = lastMark

\* A request that reaches the check 24 hours or more after the last request
\* of its id that passed is processed, not suppressed.
C18_ProcessedAgain ==
  \A r \in Requests :
    (Checked(r) /\ req[r].priorMark # 0
       /\ req[r].checkedAt - req[r].priorMark >= TTL_MS) =>
      /\ Passed(r) /\ Invoked(r, "markSeen")
      /\ req[r].resp.duplicate # <<TRUE>>

\* C18: in the baseline program a request answered duplicate:true leaves the
\* seen set unchanged and does not refresh the timestamp of its id; so a
\* request that reaches the duplicate check 24 hours or more after the last
\* request of that id that passed is processed again, however many
\* duplicates of the id were answered in between.
C18_DuplicateKeepsWindow ==
  /\ []C18_ProcessedAgain
  /\ [][C18_Frame]_vars

\* A request is processed exactly 24 hours after the last one of its id that
\* passed, with a duplicate of the id answered in between.
C18_Witness ==
  \E r \in Requests :
    /\ Passed(r) /\ req[r].priorMark # 0
    /\ req[r].checkedAt - req[r].priorMark = TTL_MS
    /\ req[r].dupsBefore >= 1

\* The key the claim gives a payload.
KeyOf(p) ==
  IF p.tweet_id # "" THEN p.tweet_id
  ELSE IF p.id # "" THEN p.id
  ELSE IF p.url # "" THEN p.url
  ELSE "unknown"
Anonymous(r) ==
  /\ req[r].body.tweet_id = "" /\ req[r].body.id = "" /\ req[r].body.url = ""
  /\ req[r].body.text # ""

\* C19: in the baseline program the deduplication key of a request is the
\* first non-empty of tweet_id, id and url of its payload, or 'unknown'; a
\* request is answered duplicate:true iff that key was marked less than 24
\* hours before its check.  So the requests that carry a text but none of
\* the three fields share the key 'unknown': once one of them passed, every
\* other one checked within 24 hours is answered duplicate:true, whatever
\* its text.
C19_KeyDerivation ==
  variant = "baseline" =>
    /\ \A r \in Requests :
         /\ Arrived(r) => req[r].tweetId = KeyOf(req[r].body)
         /\ Checked(r) =>
              /\ req[r].priorMark = 0 \/ req[r].priorMark <= req[r].checkedAt
              /\ req[r].resp.duplicate = <<TRUE>> <=>
                   /\ req[r].priorMark # 0
                   /\ req[r].checkedAt - req[r].priorMark < TTL_MS
         /\ (Anonymous(r) /\ Arrived(r)) =>
              Checked(r) /\ req[r].tweetId = "unknown"
    /\ \A r \in Requests, s \in Requests :
         (r # s /\ Anonymous(r) /\ Anonymous(s) /\ Passed(r) /\ Arrived(s)
            /\ Apart(r, s) < TTL_MS) =>
           req[s].resp = DuplicateBody

\* Two requests without tweet_id, id and url and with different texts: one
\* passed, the other, checked one millisecond short of 24 hours later, was
\* answered as its duplicate.
C19_Witness ==
  \E r \in Requests, s \in Requests :
    /\ Anonymous(r) /\ Anonymous(s) /\ req[r].body.text # req[s].body.text
    /\ Passed(r)
    /\ req[s].resp = DuplicateBody
    /\ req[s].checkedAt - req[r].checkedAt = TTL_MS - 1

\* The summarizer got an OK response without the first candidate's text.
Malformed(r) == req[r].geminiOutcome = "malformed"

\* What holds of such a request up to the notifiers: the summarizer returned
\* '' without failing and without another attempt (the attempts counted are
\* the fetches before this one), and the push notifier was invoked.
C20_EmptySummary ==
  \A r \in Requests :
    Malformed(r) =>
      /\ req[r].summary = ""
      /\ req[r].failedAt # "summarizer"
      /\ ~InSummarizer(r)
      /\ Fetches(r) = req[r].attempt + 1
      /\ Len(req[r].waits) = req[r].attempt
      /\ Invoked(r, "push")

\* C20 (as claimed): when the summarizer API answers OK with a JSON body
\* that lacks the first candidate's text, the summarizer returns '' rather
\* than failing, makes no further attempt, the request goes on to the
\* notifiers with the empty summary and ends with a 200 response.
C20_MalformedEnds200 ==
  /\ C20_EmptySummary
  /\ \A r \in Requests :
       (Malformed(r) /\ Done(r)) =>
         /\ req[r].resp.status = 200
         /\ req[r].resp.summary = <<"">>

\* C20 (amended): when the summarizer API answers OK with a JSON body that
\* lacks the first candidate's text, the summarizer returns '' rather than
\* failing, makes no further attempt, and the request goes on to the
\* notifiers with the empty summary; it ends with a 200 response carrying
\* that summary unless a notifier raises, which gives the 500 it gives after
\* a well-formed summary.
C20_MalformedSummary ==
  /\ C20_EmptySummary
  /\ \A r \in Requests :
       (Malformed(r) /\ Done(r)) =>
         \/ /\ req[r].resp.status = 200
            /\ req[r].resp.ok = TRUE
            /\ req[r].resp.summary = <<"">>
         \/ /\ req[r].resp.status = 500
            /\ \/ req[r].failedAt = "push" /\ req[r].pushOutcome = "throw"
               \/ req[r].failedAt = "email" /\ req[r].emailOutcome = "throw"

\* A hardened request whose second attempt got the malformed OK response:
\* no third attempt, a 200 with the empty summary.
C20_Witness ==
  \E r \in Requests :
    /\ variant = "hardened"
    /\ Malformed(r) /\ req[r].attempt = 1 /\ Fetches(r) = 2
    /\ req[r].resp.status = 200 /\ req[r].resp.summary = <<"">>

====
